---- MODULE Spec2Model ----
(***************************************************************************)
(* AuthentiX web client: the Authenticate page (multi-factor sequence      *)
(* face -> voice -> gesture -> pin), the Enroll page, the four step        *)
(* dialogs (FaceAuth, VoiceAuth, GestureAuth, PinAuth) with their          *)
(* asynchronous verification / enrollment requests, the useAuthMethods     *)
(* hook (FactorStatus cache, audit log writer) and the tables they write.  *)
(* One signed-in user.  Every await of the source is a separate step, so   *)
(* dialog closes, restarts and page changes interleave with requests that  *)
(* are still in flight.                                                    *)
(***************************************************************************)
EXTENDS Integers, Sequences, FiniteSets, TLC

\* ---------------------------------------------------------------- bounds
\* attempts the user submits while the audit table accepts rows
MaxLog == 4
\* wrong PIN submissions the user makes during one mount of the page
MaxWrong == 4
\* attempts submitted by the user who closes dialogs and starts over
MaxRestartLog == 6
\* enrollments submitted on the Enroll page
MaxEnrollLog == 3
\* rows SupabaseService.logAuthentication is asked to write
MaxServiceLog == 2
\* similarities are counted in hundredths, up to 1.00
MaxSimilarity == 100
\* sensor readings counted by the page that renders the BLE card
MaxReadings == 2
\* connect() calls of the BLE manager that wait for the device at once
MaxPending == 2

\* ------------------------------------------------------ program constants
steps == <<"face", "voice", "gesture", "pin">>
AuthStep == {"face", "voice", "gesture", "pin"}
Biometric == {"face", "voice", "gesture"}
maxAttempts == 3
MinEnrolled == 3
MinPinLen == 4
\* marker of an absent (undefined) confidence_score
Absent == 999
\* `result.confidence ?? 0`
DefaultConfidence == 0
\* confidence 1.0 of an enrollment event, in hundredths
EnrollConfidence == 100
\* `.limit(50)` of getAuthenticationLogs
LogLimit == 50
\* `similarity > 0.75 threshold` and `similarity > 0.70 threshold`, in hundredths
FaceThreshold == 75
VoiceThreshold == 70

indexOf(s) == CHOOSE i \in 1..Len(steps) : steps[i] = s

\* PINs the user types: one too short for the keypad's submit button, two valid
Pins == {<<1, 2>>, <<1, 2, 3, 4>>, <<9, 9, 9, 9>>}
NoPin == <<>>

\* stand-in for the SHA-256 hex digest: a digit-wise injective digest
hashPin(p) == [i \in 1..Len(p) |-> (p[i] * 7 + 3) % 10]

\* bodies the verification endpoints answer with
\* (confidence in hundredths; connection failures yield {success: false})
Responses ==
  { [success |-> TRUE,  match |-> "true",   confidence |-> 90],
    [success |-> TRUE,  match |-> "false",  confidence |-> 10],
    [success |-> TRUE,  match |-> "absent", confidence |-> Absent],
    [success |-> FALSE, match |-> "absent", confidence |-> Absent],
    [success |-> FALSE, match |-> "true",   confidence |-> 10] }

VARIABLES
  \* ---- build
  closesOnSuccess,        \* step dialogs whose processXAuth calls handleClose() after onComplete(true)
  \* ---- persistent stores
  authentication_methods, \* rows of the user (is_enrolled is TRUE in every row written)
  pins,                   \* pin_hash values of the user's rows
  authentication_logs,    \* sequence of rows, in insertion order
  backend,                \* biometric modalities the matching backend holds an enrollment for
  auditUp,                \* the audit tables accept inserts (else every insert reports an error)
  budget,                 \* attempts the user is going to submit while the audit tables accept rows
  \* ---- router
  page,
  navTimer,               \* setTimeout(() => navigate('/dashboard'), 1500) pending
  \* ---- useAuthMethods of the mounted page
  methods,                \* the AuthMethodStatus entries of the cached list
  fetchPending,
  \* ---- useBluetooth of the Authenticate page
  connected,
  connectPending,
  \* ---- Authenticate
  currentStep,
  stepStatus,
  isAuthenticating,
  showModal,
  \* ---- Enroll
  activeStep,
  \* ---- step dialogs
  sample,                 \* biometric dialogs that hold a captured sample
  isProcessing,
  pin,
  confirmPin,
  step,
  attempts,
  req,                    \* the asynchronous processXAuth call of each dialog
  \* ---- history of the current sequence (not program state)
  seqMatched,             \* steps submitted in the sequence since the last start that returned a match
  seqFailedAt,            \* the first step submitted in the sequence since the last start that returned a non-match
  wrongRun,               \* wrong PINs judged in a row since the page was mounted
  \* ---- libraries the pages do not call
  returned,               \* what the last call of a SupabaseService method returned
  probe,                  \* the similarity the matching backend computed for a verification
  decision,               \* what the backend decided for the probe
  \* ---- BleManager and the BleConnector card
  bleService,             \* the manager's private record
  updateInterval,         \* the 2 s timer of startSensorUpdates is set
  connectsPending,        \* connect() calls that wait for the device
  copies,                 \* the objects the last run of the connector's effect wrote a callback to
  connector               \* state of the BleConnector component

vars == << closesOnSuccess, authentication_methods, pins, authentication_logs, backend,
           auditUp, budget, page, navTimer, methods, fetchPending, connected, connectPending,
           currentStep, stepStatus, isAuthenticating, showModal, activeStep,
           sample, isProcessing, pin, confirmPin, step, attempts, req,
           seqMatched, seqFailedAt, wrongRun, returned, probe, decision,
           bleService, updateInterval, connectsPending, copies, connector >>

bleVars == << bleService, updateInterval, connectsPending, copies, connector >>
libVars == << returned, probe, decision, bleVars >>
envVars == << auditUp, budget >>
storeVars == << authentication_methods, pins, authentication_logs, backend, envVars >>
authVars == << currentStep, stepStatus, isAuthenticating, showModal >>
pinVars == << pin, confirmPin, step, attempts >>
histVars == << seqMatched, seqFailedAt, wrongRun >>

Pages == {"dashboard", "enroll", "authenticate"}
NoStep == "none"

\* a step submitted in the sequence since the last start returned a non-match
seqFailed == seqFailedAt # NoStep

\* the repository holds two generations of FaceAuth and GestureAuth: the earlier
\* pair leaves closing to the page, the later pair calls handleClose() itself
Builds == {{}, {"face", "gesture"}}

IdleReq == [pc |-> "idle", mode |-> "verify", success |-> FALSE, confidence |-> DefaultConfidence,
            pin |-> NoPin, attempts |-> 0, cancelled |-> FALSE, current |-> FALSE,
            before |-> {}]

InitialStepStatus == [s \in AuthStep |-> "null"]

\* the PIN the user has chosen
UserPin == <<1, 2, 3, 4>>

\* ------------------------------------------------------------------ tables
\* a row of authentication_methods; enrolled_at counts the writes
MethodRow(m, at) == [method_type |-> m, is_enrolled |-> TRUE, enrolled_at |-> at]
rowsOf(S) == {MethodRow(m, 0) : m \in S}
enrolledTypes(table) == {r.method_type : r \in {x \in table : x.is_enrolled}}

\* `new Date()` of a write: later than every enrolled_at in the table
now(table) ==
  IF table = {} THEN 1
  ELSE 1 + (CHOOSE n \in {r.enrolled_at : r \in table} : \A r \in table : r.enrolled_at <= n)

upsertReplacingAll(table, row) == {row}
\* upsert with onConflict: 'user_id,method_type'
upsertMethod(table, row) == {r \in table : r.method_type # row.method_type} \cup {row}

\* upsert with no onConflict: the conflict target is the primary key `id`, which
\* a new row never shares, so UNIQUE(user_id, method_type) rejects a second row of
\* the pair and the statement changes nothing
upsertOnPrimaryKey(table, row) ==
  IF row.method_type \in enrolledTypes(table) THEN table ELSE table \cup {row}

\* `.insert()` into authentication_logs, whose policies allow SELECT and INSERT only
insertOverLast(table, row) ==
  IF table = << >> THEN << row >> ELSE [table EXCEPT ![Len(table)] = row]
insert(table, row) == Append(table, row)

\* `.order('created_at', { ascending: false })`
newestFirst(table) == [i \in 1..Len(table) |-> table[Len(table) + 1 - i]]
\* `.limit(n)`
limit(rows, n) == SubSeq(rows, 1, IF Len(rows) < n THEN Len(rows) ELSE n)

\* upsert with onConflict: 'user_id'
insertPin(table, pinHash) == table \cup {pinHash}
upsertPin(table, pinHash) == {pinHash}

\* what the enrollment flows can leave in the stores: a row in
\* authentication_methods is written only after the backend (or the pins
\* table) has accepted the enrollment
EnrolledStores ==
  /\ authentication_methods \in {rowsOf(S) : S \in SUBSET AuthStep}
  /\ backend \in SUBSET Biometric
  /\ (enrolledTypes(authentication_methods) \cap Biometric) \subseteq backend
  /\ pins \in {{}, {hashPin(UserPin)}}
  /\ "pin" \in enrolledTypes(authentication_methods) => pins # {}

NoHandler == "null"
NoError == "null"

\* `private bleService: BleService = { ..., isConnected: false, isConnecting: false,
\* onSensorDataUpdate: null, onError: null, onConnectionChange: null }`
InitialBleService ==
  [isConnected |-> FALSE, isConnecting |-> FALSE, onSensorDataUpdate |-> NoHandler,
   onError |-> NoHandler, onConnectionChange |-> NoHandler]

\* the useState values of a BleConnector that is not rendered; `awaiting` is the
\* call of the manager its click handler waits for, `received` counts the readings
\* handed to onDataUpdate
Unmounted ==
  [mounted |-> FALSE, isConnecting |-> FALSE, isConnected |-> FALSE, error |-> NoError,
   awaiting |-> "none", received |-> 0]

\* `export const bleManager = new BleManager()`, and no card rendered yet
BleIdle ==
  /\ bleService = InitialBleService
  /\ updateInterval = FALSE
  /\ connectsPending = 0
  /\ copies = {}
  /\ connector = Unmounted

\* the client starts on the dashboard
Mounted ==
  /\ closesOnSuccess \in Builds
  /\ authentication_logs = <<>>
  /\ page = "dashboard"
  /\ navTimer = FALSE
  /\ methods = {}
  /\ fetchPending = TRUE
  /\ connected = FALSE
  /\ connectPending = FALSE
  /\ currentStep = "face"
  /\ stepStatus = InitialStepStatus
  /\ isAuthenticating = FALSE
  /\ showModal = FALSE
  /\ activeStep = NoStep
  /\ sample = {}
  /\ isProcessing = [s \in AuthStep |-> FALSE]
  /\ pin = NoPin
  /\ confirmPin = NoPin
  /\ step = "enter"
  /\ attempts = 0
  /\ req = [s \in AuthStep |-> IdleReq]
  /\ seqMatched = {}
  /\ seqFailedAt = NoStep
  /\ wrongRun = 0
  /\ BleIdle

NoProbe == [modality |-> NoStep, similarity |-> 0]
NoCall == [op |-> "none", ok |-> FALSE, rows |-> << >>]
\* no SupabaseService method has been called
ServiceIdle == returned = NoCall
\* the backend has computed no similarity
MatcherIdle == probe = NoProbe /\ decision = "none"

\* a user who has used the Enroll page before and now authenticates
Init == Mounted /\ ServiceIdle /\ MatcherIdle /\ EnrolledStores /\ auditUp = TRUE /\ budget = MaxLog

\* a fully enrolled user of the earlier build while the audit tables are out of service
InitLockout ==
  /\ Mounted
  /\ ServiceIdle
  /\ MatcherIdle
  /\ EnrolledStores
  /\ auditUp = FALSE
  /\ budget = MaxLog
  /\ closesOnSuccess = {}
  /\ authentication_methods = rowsOf(AuthStep)

\* a new user on the Enroll page
InitEnroll ==
  /\ Mounted
  /\ closesOnSuccess = {}     \* VoiceAuth and PinAuth are the same in both generations
  /\ ServiceIdle
  /\ MatcherIdle
  /\ auditUp = TRUE
  /\ budget = MaxEnrollLog
  /\ authentication_methods = {}
  /\ backend = {}
  /\ pins = {}

\* ------------------------------------------------------- useAuthMethods
\* `enrolled_at: null`
Null == -1
AuthMethodStatus(m, isEnrolled, at) ==
  [method_type |-> m, is_enrolled |-> isEnrolled, enrolled_at |-> at]

existingOnly(data) ==
  {AuthMethodStatus(r.method_type, r.is_enrolled, r.enrolled_at) : r \in data}
\* "Ensure all methods exist": the stored row of a method, or a not-enrolled default
completeMethodsList(data) ==
  {IF \E r \in data : r.method_type = m
     THEN LET existing == CHOOSE r \in data : r.method_type = m
          IN  AuthMethodStatus(existing.method_type, existing.is_enrolled, existing.enrolled_at)
     ELSE AuthMethodStatus(m, FALSE, Null) : m \in AuthStep}

isMethodEnrolled(m) == \E e \in methods : e.method_type = m /\ e.is_enrolled
enrolledCount == Cardinality({e \in methods : e.is_enrolled})

\* Dashboard: `const enrollmentComplete = enrolledCount >= 3`, which selects the
\* "Fully Secured" badge
enrollmentComplete == enrolledCount >= 3
FullySecuredShown == page = "dashboard" /\ enrollmentComplete
\* Enroll: `enrolledCount === 4 && ... Fully Enrolled!`
FullyEnrolledShown == page = "enroll" /\ enrolledCount = 4

\* fetchMethods: the select returns, or fails and leaves the list as it was
fetchMethods(ok) ==
  /\ fetchPending
  /\ fetchPending' = FALSE
  /\ methods' = IF ok THEN completeMethodsList(authentication_methods) ELSE methods
  /\ UNCHANGED << closesOnSuccess, storeVars, libVars, page, navTimer, connected, connectPending,
                  authVars, activeStep, sample, isProcessing, pinVars, req, histVars >>

\* ---------------------------------------------------------------- router
\* a route change unmounts the page and drops its component state.  The user
\* (and the dashboard timer) leave a page only while none of its calls is in flight.
NoCallInFlight == \A s \in AuthStep : req[s].pc = "idle"

navigate(p) ==
  /\ NoCallInFlight
  /\ page' = p
  /\ methods' = {}
  /\ fetchPending' = TRUE
  /\ connected' = FALSE
  /\ connectPending' = FALSE
  /\ currentStep' = "face"
  /\ stepStatus' = InitialStepStatus
  /\ isAuthenticating' = FALSE
  /\ showModal' = FALSE
  /\ activeStep' = NoStep
  /\ sample' = {}
  /\ isProcessing' = [s \in AuthStep |-> FALSE]
  /\ pin' = NoPin
  /\ confirmPin' = NoPin
  /\ step' = "enter"
  /\ attempts' = 0
  /\ req' = [s \in AuthStep |-> IdleReq]
  /\ seqMatched' = {}
  /\ seqFailedAt' = NoStep
  /\ wrongRun' = 0

Navigate(p) ==
  /\ p # page
  /\ navigate(p)
  /\ UNCHANGED << closesOnSuccess, storeVars, libVars, navTimer >>

NavTimerFires ==
  /\ navTimer
  /\ navTimer' = FALSE
  /\ IF page = "dashboard"
       THEN UNCHANGED << page, methods, fetchPending, connected, connectPending, authVars,
                         activeStep, sample, isProcessing, pinVars, req, histVars >>
       ELSE navigate("dashboard")
  /\ UNCHANGED << closesOnSuccess, storeVars, libVars >>

\* ------------------------------------------------------------ Authenticate
\* the enrollment gate: below it the page renders neither the start button nor the dialogs
GatePassedWithTwo == page = "authenticate" /\ Cardinality({m \in AuthStep : isMethodEnrolled(m)}) >= MinEnrolled - 1
GatePassed == page = "authenticate" /\ Cardinality({m \in AuthStep : isMethodEnrolled(m)}) >= MinEnrolled
EnrollmentRequiredShown == page = "authenticate" /\ ~GatePassed

AuthState == [currentStep |-> currentStep, stepStatus |-> stepStatus,
              isAuthenticating |-> isAuthenticating, showModal |-> showModal,
              navTimer |-> navTimer]

SetAuthState(st) ==
  /\ currentStep' = st.currentStep
  /\ stepStatus' = st.stepStatus
  /\ isAuthenticating' = st.isAuthenticating
  /\ showModal' = st.showModal
  /\ navTimer' = st.navTimer

\* the tail of startAuthentication, after the connection is there
beginSequence(st) ==
  [st EXCEPT !.isAuthenticating = TRUE, !.currentStep = "face", !.showModal = TRUE]

handleStepComplete(st, s, success) ==
  LET st1 == [st EXCEPT !.stepStatus[s] = IF success THEN "true" ELSE "false",
                        !.showModal = FALSE]
  IN IF ~success
       THEN [st1 EXCEPT !.isAuthenticating = FALSE]
       ELSE IF indexOf(s) < Len(steps)
              THEN [st1 EXCEPT !.currentStep = steps[indexOf(s) + 1], !.showModal = TRUE]
              ELSE [st1 EXCEPT !.isAuthenticating = FALSE, !.navTimer = TRUE]

onCloseHidesOnly(st) == [st EXCEPT !.showModal = FALSE]
\* the onClose handler the page hands to every dialog
onClose(st) == [st EXCEPT !.showModal = FALSE, !.isAuthenticating = FALSE]

SequenceStarts ==
  /\ seqMatched' = {}
  /\ seqFailedAt' = NoStep
  /\ wrongRun' = wrongRun
  /\ req' = [s \in AuthStep |-> [req[s] EXCEPT !.current = FALSE]]

\* click on "Start Authentication"
startAuthentication ==
  /\ GatePassed
  /\ ~isAuthenticating
  /\ ~showModal
  /\ IF connected
       THEN /\ SetAuthState(beginSequence(AuthState))
            /\ SequenceStarts
            /\ UNCHANGED connectPending
       ELSE /\ connectPending' = TRUE
            /\ UNCHANGED << authVars, navTimer, req, histVars >>
  /\ UNCHANGED << closesOnSuccess, storeVars, libVars, page, methods, fetchPending, connected,
                  activeStep, sample, isProcessing, pinVars >>

\* `await connect()` returns inside startAuthentication
connectReturns(ok) ==
  /\ page = "authenticate"
  /\ connectPending
  /\ connectPending' = FALSE
  /\ IF ok
       THEN /\ connected' = TRUE
            /\ SetAuthState(beginSequence(AuthState))
            /\ SequenceStarts
       ELSE UNCHANGED << connected, authVars, navTimer, req, histVars >>
  /\ UNCHANGED << closesOnSuccess, storeVars, libVars, page, methods, fetchPending,
                  activeStep, sample, isProcessing, pinVars >>

SequenceBegins == (startAuthentication /\ connected) \/ connectReturns(TRUE)

\* ------------------------------------------------------------ step dialogs
isOpen(s) ==
  \/ GatePassed /\ showModal /\ currentStep = s
  \/ page = "enroll" /\ activeStep = s

mode == IF page = "enroll" THEN "enroll" ELSE "verify"

\* camera / microphone / motion capture puts a sample into the dialog
capture(s) ==
  /\ s \in Biometric
  /\ isOpen(s)
  /\ ~isProcessing[s]
  /\ s \notin sample
  /\ sample' = sample \cup {s}
  /\ UNCHANGED << closesOnSuccess, storeVars, libVars, page, navTimer, methods, fetchPending, connected,
                  connectPending, authVars, activeStep, isProcessing, pinVars, req, histVars >>

\* retakePhoto / resetRecording / resetCapture
resetCapture(s) ==
  /\ s \in Biometric
  /\ isOpen(s)
  /\ ~isProcessing[s]
  /\ s \in sample
  /\ sample' = sample \ {s}
  /\ UNCHANGED << closesOnSuccess, storeVars, libVars, page, navTimer, methods, fetchPending, connected,
                  connectPending, authVars, activeStep, isProcessing, pinVars, req, histVars >>

\* keypad of PinAuth: the digits typed since the field was last empty
currentPin == IF step = "enter" THEN pin ELSE confirmPin

handleNumberPress(p) ==
  /\ isOpen("pin")
  /\ ~isProcessing["pin"]
  /\ p \in Pins
  /\ currentPin = NoPin
  /\ IF step = "enter"
       THEN pin' = p /\ UNCHANGED confirmPin
       ELSE confirmPin' = p /\ UNCHANGED pin
  /\ UNCHANGED << closesOnSuccess, storeVars, libVars, page, navTimer, methods, fetchPending, connected,
                  connectPending, authVars, activeStep, sample, isProcessing, step, attempts,
                  req, histVars >>

handleClear ==
  /\ isOpen("pin")
  /\ ~isProcessing["pin"]
  /\ currentPin # NoPin
  /\ IF step = "enter"
       THEN pin' = NoPin /\ UNCHANGED confirmPin
       ELSE confirmPin' = NoPin /\ UNCHANGED pin
  /\ UNCHANGED << closesOnSuccess, storeVars, libVars, page, navTimer, methods, fetchPending, connected,
                  connectPending, authVars, activeStep, sample, isProcessing, step, attempts,
                  req, histVars >>

\* the dialog's close: handleClose of a dialog that has one, else the page's onClose
sampleAfterClose(s) == IF s \in closesOnSuccess THEN sample \ {s} ELSE sample

\* the user dismisses the open dialog (Escape, overlay click or the X button)
closeDialog(s) ==
  /\ isOpen(s)
  /\ sample' = sampleAfterClose(s)
  /\ IF page = "enroll"
       THEN activeStep' = NoStep /\ UNCHANGED << authVars, navTimer >>
       ELSE SetAuthState(onClose(AuthState)) /\ UNCHANGED activeStep
  /\ req' = [req EXCEPT ![s].cancelled = (req[s].cancelled \/ req[s].pc # "idle")]
  /\ UNCHANGED << closesOnSuccess, storeVars, libVars, page, methods, fetchPending, connected,
                  connectPending, isProcessing, pinVars, histVars >>

\* ---------------------------------------------- processXAuth, step by step
\* req[s].pc: "call"   awaiting verifyX / enrollX, or the pins select / upsert
\*            "status" awaiting updateMethodStatus
\*            "log"    awaiting logAuthAttempt
\* req[s].cancelled, req[s].current: history (dialog closed while the call was
\* in flight; call made in the sequence that is still the latest one)
\* req[s].before: history (the calls submitted earlier that are still in flight)

\* what onComplete(success) and the code after it do to the page
onComplete(s, r, success, st0) ==
  LET closes == success /\ s \in closesOnSuccess
  IN /\ sample' = IF closes THEN sample \ {s} ELSE sample
     /\ IF r.mode = "verify"
          THEN LET st1 == handleStepComplete(st0, s, success)
               IN /\ SetAuthState(IF closes THEN onClose(st1) ELSE st1)
                  /\ seqMatched' = IF success /\ r.current THEN seqMatched \cup {s} ELSE seqMatched
                  /\ seqFailedAt' = IF ~success /\ r.current /\ seqFailedAt = NoStep
                                      THEN s ELSE seqFailedAt
                  /\ wrongRun' = IF s = "pin" /\ r.pc = "log"
                                   THEN (IF success THEN 0 ELSE wrongRun + 1)
                                   ELSE wrongRun
                  /\ UNCHANGED << activeStep, fetchPending >>
          ELSE \* Enroll.handleComplete: refetch(); setActiveStep(null)
               /\ activeStep' = NoStep
               /\ fetchPending' = TRUE
               /\ UNCHANGED << authVars, navTimer, histVars >>

\* `finally { setIsProcessing(false) }` and the end of the call
finally(s, r) ==
  /\ isProcessing' = [isProcessing EXCEPT ![s] = FALSE]
  /\ req' = [u \in AuthStep |-> IF u = s THEN IdleReq
                                        ELSE [req[u] EXCEPT !.before = @ \ {s}]]

\* calls that are still awaiting
InFlight == {s \in AuthStep : req[s].pc # "idle"}

\* the user stops submitting once the audit table is to hold as many rows as the budget
MaySubmit == auditUp => Len(authentication_logs) + Cardinality(InFlight) < budget

\* click on the Verify / Enroll button of a biometric dialog
processAuth(s) ==
  /\ s \in Biometric
  /\ isOpen(s)
  /\ s \in sample
  /\ ~isProcessing[s]
  /\ MaySubmit
  /\ isProcessing' = [isProcessing EXCEPT ![s] = TRUE]
  /\ req' = [req EXCEPT ![s] = [IdleReq EXCEPT !.pc = "call", !.mode = mode,
                                               !.current = (mode = "verify"),
                                               !.before = InFlight]]
  /\ UNCHANGED << closesOnSuccess, storeVars, libVars, page, navTimer, methods, fetchPending, connected,
                  connectPending, authVars, activeStep, sample, pinVars, histVars >>

\* click on the submit button of PinAuth
processPinAuth ==
  /\ isOpen("pin")
  /\ ~isProcessing["pin"]
  /\ Len(currentPin) >= MinPinLen
  /\ IF mode = "enroll" /\ step = "enter"
       THEN /\ step' = "confirm"
            /\ UNCHANGED << pin, confirmPin, isProcessing, req >>
       ELSE IF mode = "enroll" /\ pin # confirmPin
         THEN /\ confirmPin' = NoPin
              /\ pin' = NoPin
              /\ step' = "enter"
              /\ UNCHANGED << isProcessing, req >>
         ELSE /\ MaySubmit
              /\ mode = "verify" => (hashPin(pin) \in pins \/ attempts < MaxWrong)
              /\ isProcessing' = [isProcessing EXCEPT !["pin"] = TRUE]
              /\ req' = [req EXCEPT !["pin"] = [IdleReq EXCEPT !.pc = "call", !.mode = mode,
                                                !.pin = pin, !.attempts = attempts,
                                                !.current = (mode = "verify"),
                                                !.before = InFlight]]
              /\ UNCHANGED << pin, confirmPin, step >>
  /\ UNCHANGED << closesOnSuccess, storeVars, libVars, page, navTimer, methods, fetchPending, connected,
                  connectPending, authVars, activeStep, sample, attempts, histVars >>

\* success and confidence a dialog derives from a verification response
verdictIgnoresMatch(resp) == resp.success
verdictIgnoresSuccess(resp) == resp.match = "true"
verdict(resp) == resp.success /\ (IF resp.match = "absent" THEN FALSE ELSE resp.match = "true")
confidenceOf(resp) == IF resp.confidence = Absent THEN DefaultConfidence ELSE resp.confidence

\* the matching backend never reports a match for a modality it holds no enrollment for
BackendAnswers(s) == {resp \in Responses : (resp.match # "absent") => s \in backend}

\* verifyFace / verifyVoice / verifyGesture return
verifyReturns(s, resp) ==
  /\ s \in Biometric
  /\ req[s].pc = "call"
  /\ req[s].mode = "verify"
  /\ resp \in BackendAnswers(s)
  /\ req' = [req EXCEPT ![s].pc = "log", ![s].success = verdict(resp),
                        ![s].confidence = confidenceOf(resp)]
  /\ UNCHANGED << closesOnSuccess, storeVars, libVars, page, navTimer, methods, fetchPending, connected,
                  connectPending, authVars, activeStep, sample, isProcessing, pinVars, histVars >>

afterEnrollAlwaysStatus(success) == "status"
\* `if (success) { await updateMethodStatus(method, true) }`, then logAuthAttempt
afterEnroll(success) == IF success THEN "status" ELSE "log"

\* enrollFace / enrollVoice / enrollGesture return true, or false (refused or unreachable)
enrollReturns(s, ok) ==
  /\ s \in Biometric
  /\ req[s].pc = "call"
  /\ req[s].mode = "enroll"
  /\ backend' = IF ok THEN backend \cup {s} ELSE backend
  /\ req' = [req EXCEPT ![s].pc = afterEnroll(ok), ![s].success = ok]
  /\ UNCHANGED << closesOnSuccess, authentication_methods, pins, authentication_logs, envVars, libVars,
                  page, navTimer, methods, fetchPending, connected, connectPending, authVars,
                  activeStep, sample, isProcessing, pinVars, histVars >>

\* updateMethodStatus(method, true): the upsert, whose error is only reported
updateMethodStatus(s, ok) ==
  /\ req[s].pc = "status"
  /\ authentication_methods' =
       IF ok THEN upsertMethod(authentication_methods, MethodRow(s, now(authentication_methods)))
             ELSE authentication_methods
  /\ fetchPending' = (fetchPending \/ ok)   \* `await fetchMethods()` after the upsert
  /\ req' = [req EXCEPT ![s].pc = "log"]
  /\ UNCHANGED << closesOnSuccess, pins, authentication_logs, backend, envVars, libVars, page, navTimer,
                  methods, connected, connectPending, authVars, activeStep, sample,
                  isProcessing, pinVars, histVars >>

\* the row logAuthAttempt inserts into authentication_logs
AuthAttempt(s, r) ==
  [method_type |-> s, success |-> r.success,
   confidence_score |-> IF s = "pin" THEN Absent ELSE r.confidence]

\* an insert error is only written to the console
logAuthAttempt(s, r) ==
  authentication_logs' = IF auditUp
                           THEN insert(authentication_logs, AuthAttempt(s, r))
                           ELSE authentication_logs

\* logAuthAttempt returns in a biometric dialog; onComplete and finally follow
logReturns(s) ==
  /\ s \in Biometric
  /\ req[s].pc = "log"
  /\ logAuthAttempt(s, req[s])
  /\ onComplete(s, req[s], req[s].success, AuthState)
  /\ finally(s, req[s])
  /\ UNCHANGED << closesOnSuccess, authentication_methods, pins, backend, envVars, libVars, page,
                  methods, connected, connectPending, pinVars >>

pinMatchesAnyStored(stored, submitted) == stored # {}
\* `data?.pin_hash === pinHash` on the row maybeSingle() returns
pinMatches(stored, submitted) == hashPin(submitted) \in stored

\* the pins select (verify) or upsert (enroll) returns
pinCallReturns(ok) ==
  LET r == req["pin"]
  IN /\ r.pc = "call"
     /\ IF ~ok
          THEN \* `if (error) throw error` -> catch: onComplete(false)
               /\ onComplete("pin", r, FALSE, AuthState)
               /\ finally("pin", r)
               /\ UNCHANGED << pins >>
          ELSE /\ IF r.mode = "verify"
                    THEN /\ req' = [req EXCEPT !["pin"].pc = "log",
                                               !["pin"].success = pinMatches(pins, r.pin)]
                         /\ UNCHANGED pins
                    ELSE /\ pins' = upsertPin(pins, hashPin(r.pin))
                         /\ req' = [req EXCEPT !["pin"].pc = "status", !["pin"].success = TRUE]
               /\ UNCHANGED << navTimer, authVars, activeStep, fetchPending, sample,
                               isProcessing, histVars >>
     /\ UNCHANGED << closesOnSuccess, authentication_methods, authentication_logs, backend,
                     envVars, libVars, page, methods, connected, connectPending, pinVars >>

\* state of the page after the attempt counting of a wrong PIN
afterWrongPin(st, newAttempts) == IF newAttempts >= maxAttempts THEN onClose(st) ELSE st

\* logAuthAttempt returns in PinAuth; attempt counting, onComplete and finally follow
pinLogReturns ==
  LET r == req["pin"]
      newAttempts == r.attempts + 1
      counts == r.mode = "verify" /\ ~r.success
  IN /\ r.pc = "log"
     /\ logAuthAttempt("pin", r)
     /\ attempts' = IF counts THEN newAttempts ELSE attempts
     /\ pin' = IF counts /\ newAttempts < maxAttempts THEN NoPin ELSE pin
     /\ onComplete("pin", r, r.success,
                   IF counts THEN afterWrongPin(AuthState, newAttempts) ELSE AuthState)
     /\ finally("pin", r)
     /\ UNCHANGED << closesOnSuccess, authentication_methods, pins, backend, envVars, libVars, page,
                     methods, connected, connectPending, confirmPin, step >>

\* ------------------------------------------------------------------ Enroll
\* click on "Enroll Now" / "Re-enroll" of a card
onEnroll(s) ==
  /\ page = "enroll"
  /\ activeStep = NoStep
  /\ activeStep' = s
  /\ UNCHANGED << closesOnSuccess, storeVars, libVars, page, navTimer, methods, fetchPending, connected,
                  connectPending, authVars, sample, isProcessing, pinVars, req, histVars >>

\* ------------------------------------------------------- SupabaseService
clientVars == << closesOnSuccess, page, navTimer, methods, fetchPending, connected,
                 connectPending, authVars, activeStep, sample, isProcessing, pinVars, req,
                 histVars >>

Returned(op, ok, rows) == [op |-> op, ok |-> ok, rows |-> IF ok THEN rows ELSE << >>]

enrollAuthenticationMethod(methodType) ==
  LET row == MethodRow(methodType, now(authentication_methods))
      error == methodType \in enrolledTypes(authentication_methods)
  IN  /\ authentication_methods' = upsertOnPrimaryKey(authentication_methods, row)
      /\ returned' = Returned("enrollAuthenticationMethod", ~error, << row >>)
      /\ UNCHANGED << pins, authentication_logs, backend, envVars, probe, decision, bleVars, clientVars >>

logAuthentication(methodType, success, confidenceScore) ==
  LET row == [method_type |-> methodType, success |-> success,
              confidence_score |-> confidenceScore]
  IN  /\ Len(authentication_logs) < budget
      /\ authentication_logs' = IF auditUp THEN insert(authentication_logs, row)
                                            ELSE authentication_logs
      /\ returned' = Returned("logAuthentication", auditUp, << row >>)
      /\ UNCHANGED << authentication_methods, pins, backend, envVars, probe, decision,
                      bleVars, clientVars >>

getAuthenticationLogs ==
  /\ returned' = Returned("getAuthenticationLogs", TRUE,
                          limit(newestFirst(authentication_logs), LogLimit))
  /\ UNCHANGED << storeVars, probe, decision, bleVars, clientVars >>

setPin(pinHash) ==
  /\ pins' = upsertPin(pins, pinHash)
  /\ returned' = Returned("setPin", TRUE, << [pin_hash |-> pinHash] >>)
  /\ UNCHANGED << authentication_methods, authentication_logs, backend, envVars, probe,
                  decision, bleVars, clientVars >>

\* `.single()` reports an error when the user has no row
getPin ==
  /\ returned' = Returned("getPin", pins # {}, << [pin_hash |-> CHOOSE h \in pins : TRUE] >>)
  /\ UNCHANGED << storeVars, probe, decision, bleVars, clientVars >>

\* a script that uses the service for a user with no rows
InitService ==
  /\ Mounted
  /\ ServiceIdle
  /\ MatcherIdle
  /\ closesOnSuccess = {}
  /\ auditUp = TRUE
  /\ budget = MaxServiceLog
  /\ authentication_methods = {}
  /\ backend = {}
  /\ pins = {}

NextService ==
  \/ \E m \in AuthStep : enrollAuthenticationMethod(m)
  \/ \E m \in {"face", "pin"}, success \in BOOLEAN, c \in {Absent, 85} :
       logAuthentication(m, success, c)
  \/ getAuthenticationLogs
  \/ \E p \in {UserPin, <<9, 9, 9, 9>>} : setPin(hashPin(p))
  \/ getPin

SpecService == InitService /\ [][NextService]_vars

\* ------------------------------------------------------ matching backend
threshold(modality) == IF modality = "face" THEN FaceThreshold ELSE VoiceThreshold

\* "Check if similarity > 0.75 threshold"
isMatch(similarity, modality) == similarity > threshold(modality)

\* the backend has computed the similarity of a sample to the enrolled one
InitThreshold ==
  /\ Mounted
  /\ ServiceIdle
  /\ closesOnSuccess = {}
  /\ auditUp = TRUE
  /\ budget = 0
  /\ authentication_methods = rowsOf({"face", "voice"})
  /\ backend = {"face", "voice"}
  /\ pins = {}
  /\ probe \in [modality : {"face", "voice"}, similarity : 0..MaxSimilarity]
  /\ decision = "none"

compare ==
  /\ decision = "none"
  /\ decision' = IF isMatch(probe.similarity, probe.modality) THEN "Match" ELSE "NoMatch"
  /\ UNCHANGED << storeVars, returned, probe, bleVars, clientVars >>

SpecThreshold == InitThreshold /\ [][compare]_vars

\* ------------------------------------------------ BleManager, BleConnector
appVars == << storeVars, returned, probe, decision, clientVars >>

\* `return { ...this.bleService }`: a new object that holds the fields' values
getService(svc) == [f \in DOMAIN svc |-> svc[f]]

\* setIsConnected(connected); setIsConnecting(false); setError(...)
handleConnectionChange(c, isNowConnected) ==
  [c EXCEPT !.isConnected = isNowConnected, !.isConnecting = FALSE,
            !.error = IF isNowConnected THEN NoError ELSE "Device disconnected"]

\* setError(errorMessage); setIsConnecting(false)
handleError(c, errorMessage) == [c EXCEPT !.error = errorMessage, !.isConnecting = FALSE]

\* onDataUpdate(data)
handleSensorDataUpdate(c) ==
  [c EXCEPT !.received = IF @ < MaxReadings THEN @ + 1 ELSE @]

\* `if (this.bleService.onConnectionChange) this.bleService.onConnectionChange(connected)`;
\* a handler of a component that is no longer rendered sets no state
onConnectionChange(svc, c, isNowConnected) ==
  IF svc.onConnectionChange # NoHandler /\ c.mounted
    THEN handleConnectionChange(c, isNowConnected) ELSE c

\* `if (this.bleService.onError) this.bleService.onError(...)`
onError(svc, c, errorMessage) ==
  IF svc.onError # NoHandler /\ c.mounted THEN handleError(c, errorMessage) ELSE c

\* `if (this.bleService.onSensorDataUpdate) this.bleService.onSensorDataUpdate(sensorData)`
onSensorDataUpdate(svc, c) ==
  IF svc.onSensorDataUpdate # NoHandler /\ c.mounted THEN handleSensorDataUpdate(c) ELSE c

\* the effect of BleConnector: each assignment writes to the object its own call of
\* getService() returned, then a fourth call reads isConnected
mountConnector ==
  /\ ~connector.mounted
  /\ copies' =
       { [getService(bleService) EXCEPT !.onSensorDataUpdate = "handleSensorDataUpdate"],
         [getService(bleService) EXCEPT !.onError = "handleError"],
         [getService(bleService) EXCEPT !.onConnectionChange = "handleConnectionChange"] }
  /\ connector' = [Unmounted EXCEPT !.mounted = TRUE,
                                    !.isConnected = getService(bleService).isConnected]
  /\ UNCHANGED << bleService, updateInterval, connectsPending, appVars >>

\* the cleanup of the effect
unmountConnector ==
  /\ connector.mounted
  /\ copies' =
       { [getService(bleService) EXCEPT !.onSensorDataUpdate = NoHandler],
         [getService(bleService) EXCEPT !.onError = NoHandler],
         [getService(bleService) EXCEPT !.onConnectionChange = NoHandler] }
  /\ connector' = Unmounted
  /\ UNCHANGED << bleService, updateInterval, connectsPending, appVars >>

\* the button is rendered while !isConnected; connect() returns false at once
\* while the manager is connecting
connectToDevice ==
  /\ connector.mounted
  /\ ~connector.isConnected
  /\ ~connector.isConnecting
  /\ IF bleService.isConnecting
       THEN /\ connector' = [connector EXCEPT !.error = "Failed to connect to device",
                                              !.isConnecting = FALSE]
            /\ UNCHANGED << bleService, connectsPending >>
       ELSE /\ connectsPending < MaxPending
            /\ bleService' = [bleService EXCEPT !.isConnecting = TRUE]
            /\ connectsPending' = connectsPending + 1
            /\ connector' = [connector EXCEPT !.isConnecting = TRUE, !.error = NoError,
                                              !.awaiting = "connect"]
  /\ UNCHANGED << updateInterval, copies, appVars >>

\* what the click handler does when the call it awaits returns false
callFailed(c) ==
  [c EXCEPT !.error = IF c.awaiting = "connect" THEN "Failed to connect to device"
                      ELSE "Failed to reconnect to device",
            !.isConnecting = FALSE, !.awaiting = "none"]

\* a connect() that waited for the device returns: `awaited` says that the rendered
\* card waits for this call (otherwise an earlier card started it)
connectResolves(ok, awaited) ==
  /\ connectsPending > 0
  /\ IF awaited THEN connector.awaiting # "none"
                ELSE connectsPending > (IF connector.awaiting # "none" THEN 1 ELSE 0)
  /\ connectsPending' = connectsPending - 1
  /\ IF ok
       THEN /\ bleService' = [bleService EXCEPT !.isConnected = TRUE, !.isConnecting = FALSE]
            /\ updateInterval' = TRUE
            /\ LET notified == onConnectionChange(bleService, connector, TRUE)
               IN  connector' = IF awaited THEN [notified EXCEPT !.awaiting = "none"]
                                ELSE notified
       ELSE /\ bleService' = [bleService EXCEPT !.isConnecting = FALSE]
            /\ UNCHANGED updateInterval
            /\ LET notified == onError(bleService, connector, "Connection failed")
               IN  connector' = IF awaited THEN callFailed(notified) ELSE notified
  /\ UNCHANGED << copies, appVars >>

\* the 2 s timer or an IMU notification fires while the device is connected
readAllSensorData(ok) ==
  /\ bleService.isConnected
  /\ connector' = IF ok THEN onSensorDataUpdate(bleService, connector)
                  ELSE onError(bleService, connector, "Sensor read error")
  /\ UNCHANGED << bleService, updateInterval, connectsPending, copies, appVars >>

\* isConnected = false; isConnecting = false; then the connection-change callback
handleDisconnection(c) ==
  /\ bleService' = [bleService EXCEPT !.isConnected = FALSE, !.isConnecting = FALSE]
  /\ connector' = onConnectionChange(bleService, c, FALSE)

\* 'gattserverdisconnected'
deviceDisconnects ==
  /\ bleService.isConnected
  /\ handleDisconnection(connector)
  /\ UNCHANGED << updateInterval, connectsPending, copies, appVars >>

\* bleManager.disconnect()
disconnectDevice ==
  /\ connector.mounted
  /\ connector.isConnected
  /\ updateInterval' = FALSE
  /\ handleDisconnection(connector)
  /\ UNCHANGED << connectsPending, copies, appVars >>

\* bleManager.reconnect(): disconnect(), then connect(), which finds isConnecting false
reconnectDevice ==
  /\ connector.mounted
  /\ connector.isConnected
  /\ ~connector.isConnecting
  /\ connectsPending < MaxPending
  /\ updateInterval' = FALSE
  /\ LET clicked == [connector EXCEPT !.isConnecting = TRUE, !.error = NoError,
                                      !.awaiting = "reconnect"]
     IN  connector' = onConnectionChange(bleService, clicked, FALSE)
  /\ bleService' = [bleService EXCEPT !.isConnected = FALSE, !.isConnecting = TRUE]
  /\ connectsPending' = connectsPending + 1
  /\ UNCHANGED << copies, appVars >>

\* the text next to the icon
statusText ==
  IF connector.isConnecting THEN "Connecting..."
  ELSE IF connector.isConnected THEN "Connected" ELSE "Disconnected"

\* a page that renders the card, and a device in range
InitBle ==
  /\ Mounted
  /\ ServiceIdle
  /\ MatcherIdle
  /\ closesOnSuccess = {}
  /\ auditUp = TRUE
  /\ budget = 0
  /\ authentication_methods = {}
  /\ backend = {}
  /\ pins = {}

NextBle ==
  \/ mountConnector
  \/ unmountConnector
  \/ connectToDevice
  \/ \E ok \in BOOLEAN, awaited \in BOOLEAN : connectResolves(ok, awaited)
  \/ \E ok \in BOOLEAN : readAllSensorData(ok)
  \/ deviceDisconnects
  \/ disconnectDevice
  \/ reconnectDevice

SpecBle == InitBle /\ [][NextBle]_vars

\* ------------------------------------------------------------------- Next
Next ==
  \/ \E ok \in BOOLEAN : fetchMethods(ok)
  \/ \E p \in {"dashboard", "authenticate"} : Navigate(p)
  \/ NavTimerFires
  \/ startAuthentication
  \/ \E ok \in BOOLEAN : connectReturns(ok)
  \/ \E s \in AuthStep : capture(s)
  \/ \E s \in AuthStep : resetCapture(s)
  \/ \E p \in Pins : handleNumberPress(p)
  \/ handleClear
  \/ \E s \in AuthStep : closeDialog(s)
  \/ \E s \in AuthStep : processAuth(s)
  \/ processPinAuth
  \/ \E s \in AuthStep, resp \in Responses : verifyReturns(s, resp)
  \/ \E s \in AuthStep : logReturns(s)
  \/ \E ok \in BOOLEAN : pinCallReturns(ok)
  \/ pinLogReturns

\* the Authenticate page and the dashboard, over every enrollment state
Spec == Init /\ [][Next]_vars

\* the response of a backend that recognises the user
Recognised == [success |-> TRUE, match |-> "true", confidence |-> 90]

\* a user who is recognised at every biometric step and keeps trying PINs,
\* sequence after sequence
NextLockout ==
  \/ fetchMethods(TRUE)
  \/ Navigate("authenticate")
  \/ NavTimerFires
  \/ startAuthentication
  \/ connectReturns(TRUE)
  \/ \E s \in AuthStep : capture(s)
  \/ \E p \in Pins : handleNumberPress(p)
  \/ handleClear
  \/ \E s \in AuthStep : processAuth(s)
  \/ processPinAuth
  \/ \E s \in AuthStep : verifyReturns(s, Recognised)
  \/ \E s \in AuthStep : logReturns(s)
  \/ pinCallReturns(TRUE)
  \/ \E s \in AuthStep : closeDialog(s)
  \/ pinLogReturns

SpecLockout == InitLockout /\ [][NextLockout]_vars

\* a fully enrolled user of the earlier build with a larger budget
InitRestart ==
  /\ Mounted
  /\ ServiceIdle
  /\ MatcherIdle
  /\ EnrolledStores
  /\ auditUp = TRUE
  /\ budget = MaxRestartLog
  /\ closesOnSuccess = {}
  /\ authentication_methods = rowsOf(AuthStep)

\* the response of a backend that compares and finds another person
NotRecognised == [success |-> TRUE, match |-> "false", confidence |-> 10]

\* a user who closes dialogs and starts over while calls are in flight
NextRestart ==
  \/ fetchMethods(TRUE)
  \/ Navigate("authenticate")
  \/ NavTimerFires
  \/ startAuthentication
  \/ connectReturns(TRUE)
  \/ \E s \in AuthStep : capture(s)
  \/ handleNumberPress(UserPin)
  \/ \E s \in AuthStep : closeDialog(s)
  \/ \E s \in AuthStep : processAuth(s)
  \/ processPinAuth
  \/ \E s \in AuthStep, resp \in {Recognised, NotRecognised} : verifyReturns(s, resp)
  \/ \E s \in AuthStep : logReturns(s)
  \/ pinCallReturns(TRUE)
  \/ pinLogReturns

SpecRestart == InitRestart /\ [][NextRestart]_vars

\* the toast 'Authentication successful!' with the way to the dashboard scheduled
Completed == page = "authenticate" /\ navTimer

\* the response for a modality the backend holds no enrollment for
NotEnrolled == [success |-> FALSE, match |-> "absent", confidence |-> Absent]
\* the response to the user's own sample
honestAnswer(s) == IF s \in backend THEN Recognised ELSE NotEnrolled

\* a user of the earlier build
InitHonest == Init /\ closesOnSuccess = {}

\* a user who goes to the Authenticate page, tries one sequence, gives their own
\* sample and PIN at every step and closes nothing; every call returns
NextHonest ==
  \/ fetchMethods(TRUE)
  \/ Navigate("authenticate")
  \/ NavTimerFires
  \/ (startAuthentication /\ ~seqFailed)
  \/ connectReturns(TRUE)
  \/ \E s \in AuthStep : capture(s)
  \/ handleNumberPress(UserPin)
  \/ \E s \in AuthStep : processAuth(s)
  \/ processPinAuth
  \/ \E s \in AuthStep : verifyReturns(s, honestAnswer(s))
  \/ \E s \in AuthStep : logReturns(s)
  \/ pinCallReturns(TRUE)
  \/ pinLogReturns

SpecHonest == InitHonest /\ [][NextHonest]_vars /\ WF_vars(NextHonest)

\* the cards the user of the Enroll page works on
Enrolling == {"voice", "pin"}

NextEnroll ==
  \/ \E ok \in BOOLEAN : fetchMethods(ok)
  \/ \E p \in {"dashboard", "enroll"} : Navigate(p)
  \/ \E s \in Enrolling : onEnroll(s)
  \/ \E s \in AuthStep : capture(s)
  \/ \E s \in AuthStep : resetCapture(s)
  \/ \E p \in Pins : handleNumberPress(p)
  \/ handleClear
  \/ \E s \in AuthStep : closeDialog(s)
  \/ \E s \in AuthStep : processAuth(s)
  \/ processPinAuth
  \/ \E s \in AuthStep, ok \in BOOLEAN : enrollReturns(s, ok)
  \/ \E s \in AuthStep, ok \in BOOLEAN : updateMethodStatus(s, ok)
  \/ \E s \in AuthStep : logReturns(s)
  \/ \E ok \in BOOLEAN : pinCallReturns(ok)
  \/ pinLogReturns

\* the Enroll page and the dashboard, from an empty enrollment state: a new
\* user who enrolls (and re-enrolls) a voice and a PIN
SpecEnroll == InitEnroll /\ [][NextEnroll]_vars

TypeOK ==
  /\ enrolledTypes(authentication_methods) \subseteq AuthStep
  /\ backend \subseteq Biometric
  /\ page \in Pages
  /\ {e.method_type : e \in methods} \subseteq AuthStep
  /\ currentStep \in AuthStep
  /\ attempts \in 0..MaxWrong
  /\ wrongRun \in 0..attempts
  /\ Len(authentication_logs) <= budget

\* ------------------------------------------------------------------ claims
\* C1: once a step submitted in the running sequence has returned a non-match,
\* no step dialog is presented again until the user starts a new sequence
FailFast == seqFailed => ~showModal

\* C2: when a face, voice or gesture verification of the running sequence returns
\* a match to the dialog on screen, the page then presents the next step of the
\* order face, voice, gesture, pin
MatchAdvances ==
  [][\A s \in Biometric :
       (isOpen(s) /\ req[s].pc = "log" /\ req[s].current /\ req[s].success /\ logReturns(s))
         => (showModal' /\ isAuthenticating' /\ currentStep' = steps[indexOf(s) + 1])]_vars

\* C3: the page reports overall success (and schedules the way to the dashboard)
\* only when each of the four steps returned a match in the sequence then running
CompletedOnlyAfterAllMatch ==
  [][(req["pin"].pc = "log" /\ req["pin"].mode = "verify" /\ req["pin"].success /\ pinLogReturns)
       => seqMatched' = AuthStep]_vars

\* C4: a first or second wrong PIN of the running sequence leaves the sequence
\* running with the PIN dialog on screen for another submission
WrongCodeKeepsSequence ==
  [][(isOpen("pin") /\ req["pin"].pc = "log" /\ req["pin"].current /\ ~req["pin"].success
        /\ wrongRun + 1 < maxAttempts /\ req["pin"].attempts + 1 < maxAttempts /\ pinLogReturns)
       => (showModal' /\ isAuthenticating' /\ currentStep' = "pin")]_vars

\* C5: after maxAttempts wrong PINs in a row, no further PIN submission is
\* reported as a success
LockedOutRejects ==
  [][(req["pin"].pc = "log" /\ req["pin"].mode = "verify" /\ wrongRun >= maxAttempts /\ pinLogReturns)
       => stepStatus'["pin"] # "true"]_vars

\* C6: every new sequence starts with the PIN retry counter at zero
CounterZeroAtStart == [][SequenceBegins => attempts' = 0]_vars

\* C7: while fewer than MinEnrolled modalities are enrolled the Authenticate page
\* reports the missing enrollment, no sequence is started or being started, no
\* step dialog is presented and no verification is under way
EnrollmentGate ==
  (page = "authenticate" /\ Cardinality(enrolledTypes(authentication_methods)) < MinEnrolled)
    => /\ EnrollmentRequiredShown
       /\ ~showModal /\ ~isAuthenticating /\ ~connectPending
       /\ \A s \in AuthStep : ~isOpen(s) /\ req[s].pc = "idle"

\* C7 witness: the page has loaded the list of a user one modality short of the gate
EnrollmentReported ==
  /\ page = "authenticate"
  /\ ~fetchPending
  /\ Cardinality(enrolledTypes(authentication_methods)) = MinEnrolled - 1
  /\ methods = completeMethodsList(authentication_methods)
  /\ EnrollmentRequiredShown

\* C8: a verification whose dialog was closed while the request was in flight
\* ends without a row added to authentication_logs
CancelledLeavesNoAttempt ==
  [][\A s \in AuthStep :
       (req[s].cancelled /\ req[s].pc # "idle" /\ req'[s].pc = "idle")
         => authentication_logs' = authentication_logs]_vars

\* C9: an open step dialog can always be dismissed; dismissing it ends the
\* sequence and adds no row to authentication_logs; a row is added only as the
\* AuthAttempt of a step whose verification call has returned
CancelAnyTime ==
  /\ [](\A s \in AuthStep : isOpen(s) => ENABLED closeDialog(s))
  /\ [][/\ \A s \in AuthStep :
            closeDialog(s) => (~showModal' /\ ~isAuthenticating'
                               /\ authentication_logs' = authentication_logs)
        /\ authentication_logs' # authentication_logs
             => \E s \in AuthStep :
                  /\ req[s].pc = "log"
                  /\ authentication_logs' = Append(authentication_logs, AuthAttempt(s, req[s]))]_vars

\* C9 witness: a sequence was started, a face sample captured and the dialog
\* dismissed before anything was submitted; the audit table is still empty
CancelledUnsubmitted ==
  /\ page = "authenticate"
  /\ connected
  /\ ~isAuthenticating
  /\ ~showModal
  /\ "face" \in sample
  /\ stepStatus = InitialStepStatus
  /\ NoCallInFlight
  /\ authentication_logs = <<>>

\* C10: every submitted verification, whatever its outcome, ends with one more
\* row in authentication_logs
EveryAttemptAudited ==
  [][\A s \in AuthStep :
       (req[s].mode = "verify" /\ req[s].pc # "idle" /\ req'[s].pc = "idle")
         => Len(authentication_logs') = Len(authentication_logs) + 1]_vars

\* C11: the non-match of the voice step of the running sequence adds exactly one
\* row, that of the voice step with success = FALSE, and once the sequence has
\* failed at voice neither a gesture nor a PIN verification is submitted in it
VoiceFailureEndsSequence ==
  [][/\ ((isOpen("voice") /\ req["voice"].pc = "log" /\ req["voice"].current
            /\ ~req["voice"].success /\ logReturns("voice"))
           => (/\ authentication_logs' = Append(authentication_logs, AuthAttempt("voice", req["voice"]))
               /\ ~AuthAttempt("voice", req["voice"]).success))
      /\ ((seqFailedAt = "voice")
           => ~(processAuth("gesture") \/ (processPinAuth /\ req'["pin"].pc = "call")))]_vars

\* C12: a verification reports a match only for a modality the backend holds an
\* enrollment for, and a PIN is verified only against a stored hash
NoMatchBeforeEnrollment ==
  /\ \A s \in Biometric :
       (req[s].pc = "log" /\ req[s].mode = "verify" /\ req[s].success) => s \in backend
  /\ (req["pin"].pc = "log" /\ req["pin"].mode = "verify" /\ req["pin"].success) => pins # {}
  /\ (seqMatched \cap Biometric) \subseteq backend
  /\ ("pin" \in seqMatched) => pins # {}

\* C12 witness: the PIN of a user without a row in pins has been judged
UnenrolledPinJudged ==
  /\ pins = {}
  /\ req["pin"].pc = "log"
  /\ req["pin"].mode = "verify"
  /\ Len(req["pin"].pin) >= MinPinLen
  /\ ~req["pin"].success

\* C13: the PIN step reports success exactly when the hash of the submitted PIN
\* equals a hash stored for the user
CodeVerifiesIffHashEqual ==
  [][(req["pin"].pc = "log" /\ req["pin"].mode = "verify" /\ pinLogReturns)
       => /\ req["pin"].success <=> (hashPin(req["pin"].pin) \in pins)
          /\ (stepStatus'["pin"] = "true") <=> (hashPin(req["pin"].pin) \in pins)
          /\ auditUp => authentication_logs'[Len(authentication_logs')].success
                           = (hashPin(req["pin"].pin) \in pins)]_vars

\* C13 witness: a PIN other than the one whose hash is stored has been judged
OtherPinJudged ==
  /\ pins = {hashPin(UserPin)}
  /\ req["pin"].pc = "log"
  /\ req["pin"].mode = "verify"
  /\ req["pin"].pin = <<9, 9, 9, 9>>
  /\ ~req["pin"].success

\* C14: the pins table holds at most one row for the user and never a raw PIN;
\* a PIN enrollment whose upsert succeeds leaves exactly the hash of the PIN it set
OnlyLastHashStored ==
  /\ [](Cardinality(pins) <= 1 /\ pins \cap Pins = {})
  /\ [][(req["pin"].mode = "enroll" /\ pinCallReturns(TRUE))
         => pins' = {hashPin(req["pin"].pin)}]_vars

\* C14 witness: the PIN was set a second time, to another code
PinSetAgain ==
  /\ enrolledTypes(authentication_methods) = {"pin"}
  /\ \E r \in authentication_methods : r.enrolled_at >= 2
  /\ pins = {hashPin(<<9, 9, 9, 9>>)}
  /\ \E i \in 1..Len(authentication_logs) : authentication_logs[i].method_type = "pin"
  /\ req["pin"].pc = "idle"

\* C16: an enrollment that failed is logged as a failure and changes neither the
\* backend's enrollment, nor the rows of its modality, nor the stored PIN hash
FailedEnrollmentChangesNothing ==
  [][/\ \A s \in AuthStep :
          (req[s].mode = "enroll" /\ req[s].pc \in {"status", "log"} /\ ~req[s].success)
            => /\ {r \in authentication_methods' : r.method_type = s}
                    = {r \in authentication_methods : r.method_type = s}
               /\ (s \in backend') = (s \in backend)
               /\ (s = "pin") => (pins' = pins)
               /\ (req'[s].pc = "idle")
                    => authentication_logs' = Append(authentication_logs,
                                                     [AuthAttempt(s, req[s]) EXCEPT !.success = FALSE])
     /\ \A s \in Biometric :
          enrollReturns(s, FALSE)
            => (backend' = backend /\ authentication_methods' = authentication_methods
                /\ ~req'[s].success /\ req'[s].pc = "log")
     /\ (req["pin"].mode = "enroll" /\ pinCallReturns(FALSE))
            => (pins' = pins /\ authentication_methods' = authentication_methods
                /\ req'["pin"].pc = "idle")]_vars

\* C16 witness: a voice that is already enrolled was enrolled again and the
\* backend refused
ReEnrollmentRefused ==
  /\ "voice" \in enrolledTypes(authentication_methods)
  /\ "voice" \in backend
  /\ req["voice"].mode = "enroll"
  /\ req["voice"].pc = "log"
  /\ ~req["voice"].success

\* C17: every enrollment attempt ends with one more row of its method, with the
\* success of the enrollment, and with confidence 1.0 when it succeeded
EnrollmentAudited ==
  [][\A s \in AuthStep :
       (req[s].mode = "enroll" /\ req[s].pc # "idle" /\ req'[s].pc = "idle")
         => /\ Len(authentication_logs') = Len(authentication_logs) + 1
            /\ authentication_logs'[Len(authentication_logs')].method_type = s
            /\ authentication_logs'[Len(authentication_logs')].success = req[s].success
            /\ req[s].success
                 => authentication_logs'[Len(authentication_logs')].confidence_score
                      = EnrollConfidence]_vars

\* C18: a row of a biometric method the backend holds no enrollment for has
\* success = FALSE and no confidence_score
NotEnrolledLoggedWithoutConfidence ==
  \A i \in 1..Len(authentication_logs) :
    (authentication_logs[i].method_type \in Biometric \ backend)
      => (~authentication_logs[i].success /\ authentication_logs[i].confidence_score = Absent)

\* C15: an enrollment of a (user, modality) pair, through updateMethodStatus or
\* through SupabaseService.enrollAuthenticationMethod, leaves exactly one row of the
\* pair, and that row is the one the call wrote
ReEnrollmentReplaces ==
  /\ [](\A m \in AuthStep :
          Cardinality({r \in authentication_methods : r.method_type = m}) <= 1)
  /\ [][\A m \in AuthStep :
          enrollAuthenticationMethod(m)
            => {r \in authentication_methods' : r.method_type = m}
                 = {MethodRow(m, now(authentication_methods))}]_vars

\* C19: the decision is a Match exactly when the similarity is at least the
\* threshold of the modality
InclusiveThreshold ==
  (decision # "none")
    => ((decision = "Match") <=> (probe.similarity >= threshold(probe.modality)))

\* C20: a step leaves authentication_logs as it is or appends one row to it
AppendOnly ==
  [][/\ Len(authentication_logs') \in {Len(authentication_logs), Len(authentication_logs) + 1}
     /\ SubSeq(authentication_logs', 1, Len(authentication_logs)) = authentication_logs]_vars

\* C20 witness: a row has been appended after a different one
TwoRowsLogged ==
  /\ Len(authentication_logs) >= 2
  /\ authentication_logs[1] # authentication_logs[2]

FullySecuredMeansAllFour ==
  /\ (page = "dashboard")
       => (FullySecuredShown <=> (\A m \in AuthStep : isMethodEnrolled(m)))
  /\ (page = "enroll")
       => (FullyEnrolledShown <=> (\A m \in AuthStep : isMethodEnrolled(m)))

\* C23: a record is appended for a call only when no call submitted before it is
\* still awaiting its record, and a step of the running sequence is submitted only
\* when no earlier step of that sequence is still awaiting its record
LogInAttemptOrder ==
  [][\A s \in AuthStep :
       /\ (req[s].pc = "log" /\ req'[s].pc = "idle"
             /\ Len(authentication_logs') = Len(authentication_logs) + 1)
            => req[s].before = {}
       /\ (req[s].pc = "idle" /\ req'[s].pc = "call" /\ req'[s].current)
            => \A u \in InFlight : ~req[u].current]_vars

\* C24: a sequence that starts is at the face step, with every per-step outcome
\* unset and the PIN retry counter at zero
SequenceStartsFresh ==
  [][SequenceBegins
       => /\ currentStep' = "face"
          /\ stepStatus' = InitialStepStatus
          /\ attempts' = 0]_vars

PassOnlyOnSuccessAndMatch ==
  [][\A s \in Biometric :
       /\ \A resp \in Responses :
            verifyReturns(s, resp)
              => (req'[s].success <=> (resp.success /\ resp.match = "true"))
       /\ (req[s].mode = "verify" /\ logReturns(s))
            => /\ (stepStatus'[s] = "true") <=> req[s].success
               /\ (stepStatus'[s] = "false") <=> ~req[s].success]_vars

\* C26 witness: a response that carries a confidence but not both success = true and
\* match = true was judged a failure
NonPassJudgedFailure ==
  \E s \in Biometric :
    /\ req[s].pc = "log"
    /\ req[s].mode = "verify"
    /\ req[s].confidence = 10
    /\ ~req[s].success

\* C27: on the Authenticate page a dialog is shown only while isAuthenticating, and
\* while no sequence is in progress nothing but a start opens a dialog or moves the
\* current step
EndedSequenceStaysEnded ==
  [][(page = "authenticate" /\ page' = "authenticate")
       => /\ showModal' => isAuthenticating'
          /\ (~isAuthenticating /\ ~SequenceBegins)
               => (~showModal' /\ currentStep' = currentStep)]_vars

\* C28: a user whom the enrollment gate admits, and who gives their own sample and
\* PIN at every step, reaches Completed
AdmittedUserCompletes ==
  (Cardinality(enrolledTypes(authentication_methods)) >= MinEnrolled) => <>Completed

\* C29: a step dialog that opens holds no recorded sample and no entered PIN, and
\* PinAuth is at its 'enter' step
DialogOpensEmpty ==
  [][\A s \in AuthStep :
       (~isOpen(s) /\ isOpen(s)')
         => /\ s \notin sample'
            /\ (s = "pin") => (pin' = NoPin /\ confirmPin' = NoPin /\ step' = "enter")]_vars

\* C30: when a connect() that the rendered card waits for succeeds, the card's
\* connection-change handler has run (the card no longer shows "Connecting..." and
\* shows "Connected"), and each reading taken after that is handed to its data handler
ConnectSuccessReachesConnector ==
  [][/\ (connector.mounted /\ connectResolves(TRUE, TRUE))
          => statusText' = "Connected"
     /\ (connector.mounted /\ connector.received < MaxReadings /\ readAllSensorData(TRUE))
          => connector'.received = connector.received + 1]_vars

====
